---- MODULE Spec2Model ----
(***************************************************************************)
(* ONIX 3.1 document encoder (app/services/onix_service.py) and the HTTP   *)
(* handlers that ingest a product and export it (app/api/products.py).     *)
(*                                                                         *)
(* Python values are tagged records, so that None, a string, a number, a   *)
(* list and a dict stay distinguishable the way they are at run time.      *)
(* An XML element is [t, tag, text, children]; children is in document     *)
(* order, which is the order of the SubElement calls.                      *)
(***************************************************************************)
EXTENDS Integers, Sequences, FiniteSets, TLC

VARIABLES
    self,          \* the OnixXmlGenerator: sender_name, sender_email
    now,           \* the wall clock datetime.now() reads
    pc,            \* the encoder's caller: "idle" | "returned" | "again"
    call,          \* the arguments the caller passes to generate_product_xml
    result,        \* what the call returned or raised, with the clock it read
    result2,       \* the same, for a second call with the same arguments
    publishers,    \* table publishers  (rows in insertion order)
    authors,       \* table authors
    collections,   \* table collections
    products,      \* table products
    product_authors, \* table product_authors
    response       \* the last HTTP response

vars == <<self, now, pc, call, result, result2,
          publishers, authors, collections, products, product_authors, response>>

encoderVars == <<self, now, pc, call, result, result2>>
dbVars == <<publishers, authors, collections, products, product_authors>>

----------------------------------------------------------------------------
(* Bounds of the model.                                                    *)

\* longest author list handed to the encoder
MaxAuthors == 2
\* longest text_content / supporting_resources / prices list in onix_json
MaxItems == 2

----------------------------------------------------------------------------
(* Python values.                                                          *)

None == [t |-> "None"]
PyStr(s) == [t |-> "str", v |-> s]
PyInt(n) == [t |-> "int", v |-> n]
\* a float with one decimal digit: whole + tenth / 10
PyFloat(whole, tenth) == [t |-> "float", whole |-> whole, tenth |-> tenth]
PyList(s) == [t |-> "list", v |-> s]
PyDict(d) == [t |-> "dict", v |-> d]
\* uuid.UUID, held as its 32 hexadecimal digits
PyUUID(hex) == [t |-> "UUID", hex |-> hex]

EmptyDict == [k \in {} |-> None]

\* Python truth value testing, as used by `if x:`, `not x` and `x or y`.
Truthy(x) ==
    CASE x.t = "None" -> FALSE
      [] x.t = "str" -> x.v # ""
      [] x.t = "int" -> x.v # 0
      [] x.t = "float" -> x.whole # 0 \/ x.tenth # 0
      [] x.t = "list" -> Len(x.v) > 0
      [] x.t = "dict" -> DOMAIN x.v # {}
      [] OTHER -> TRUE

\* x or y
Or(x, y) == IF Truthy(x) THEN x ELSE y

\* dict.get(key, default): the default only when the key is missing
get(d, key, default) == IF key \in DOMAIN d.v THEN d.v[key] ELSE default

\* str(x)
str(x) ==
    CASE x.t = "str" -> x.v
      [] x.t = "None" -> "None"
      [] x.t = "int" -> ToString(x.v)
      [] x.t = "float" -> ToString(x.whole) \o "." \o ToString(x.tenth)
      [] x.t = "UUID" -> SubSeq(x.hex, 1, 8) \o "-" \o SubSeq(x.hex, 9, 12) \o "-"
                         \o SubSeq(x.hex, 13, 16) \o "-" \o SubSeq(x.hex, 17, 20)
                         \o "-" \o SubSeq(x.hex, 21, 32)

\* raise exc
Raise(exc) == [t |-> "raise", exc |-> exc]
IsRaise(x) == x.t = "raise"

\* `for item in x` needs an iterable: iterating None raises TypeError
Iterable(x) == x.t = "list"

Pad2(n) == IF n < 10 THEN "0" \o ToString(n) ELSE ToString(n)

\* datetime.strftime("%Y%m%dT%H%M%S")
strftime(d) ==
    ToString(d.year) \o Pad2(d.month) \o Pad2(d.day) \o "T"
    \o Pad2(d.hour) \o Pad2(d.minute) \o Pad2(d.second)

----------------------------------------------------------------------------
(* lxml.etree elements.                                                    *)

\* etree.Element(tag)
Element(tag) == [t |-> "Element", tag |-> tag, text |-> None, children |-> <<>>]

\* etree.SubElement(parent, tag) followed by `.text = text`, as a detached node
Leaf(tag, text) == [t |-> "Element", tag |-> tag, text |-> text, children |-> <<>>]

\* an element with the children appended to it so far
Node(tag, children) ==
    [t |-> "Element", tag |-> tag, text |-> None, children |-> children]

\* etree.SubElement(parent, ...): the new element becomes the last child
SubElement(parent, child) == [parent EXCEPT !.children = Append(@, child)]

----------------------------------------------------------------------------
(* OnixXmlGenerator.                                                       *)

\* OnixXmlGenerator(sender_name, sender_email)
OnixXmlGenerator(sender_name, sender_email) ==
    [t |-> "OnixXmlGenerator", sender_name |-> sender_name,
     sender_email |-> sender_email]

\* _create_header that numbers the messages of a caller: the first call made
\* for an aggregate writes note 1, a repeated call note 2
HeaderWithMessageNumber(gen, parent) ==
    LET sender == Node("Sender",
                       <<Leaf("SenderName", gen.sender_name)>>
                       \o (IF Truthy(gen.sender_email)
                           THEN <<Leaf("EmailAddress", gen.sender_email)>>
                           ELSE <<>>))
        header == Node("Header",
                       <<sender,
                         Leaf("SentDateTime", PyStr(strftime(now))),
                         Leaf("MessageNote",
                              PyStr(IF pc = "returned" THEN "ONIX 3.1 Export 2"
                                    ELSE "ONIX 3.1 Export 1"))>>)
    IN SubElement(parent, header)

\* Header block; SentDateTime is the clock reading at the time of the call.
_create_header(gen, parent) ==
    LET sender == Node("Sender",
                       <<Leaf("SenderName", gen.sender_name)>>
                       \o (IF Truthy(gen.sender_email)
                           THEN <<Leaf("EmailAddress", gen.sender_email)>>
                           ELSE <<>>))
        header == Node("Header",
                       <<sender,
                         Leaf("SentDateTime", PyStr(strftime(now))),
                         Leaf("MessageNote", PyStr("ONIX 3.1 Export"))>>)
    IN SubElement(parent, header)

\* _create_product_identifiers that writes the code of ISBN-10
ProductIdentifiersIsbn10(product_elem, isbn) ==
    SubElement(product_elem,
               Node("ProductIdentifier",
                    <<Leaf("ProductIDType", PyStr("02")),
                      Leaf("IDValue", isbn)>>))

\* Block 1: no check of the ISBN is made before it is written.
_create_product_identifiers(product_elem, isbn) ==
    SubElement(product_elem,
               Node("ProductIdentifier",
                    <<Leaf("ProductIDType", PyStr("15")),
                      Leaf("IDValue", isbn)>>))

\* Contributor numbered by enumerate(authors), which counts from 0
ContributorFromZero(i, author) ==
    Node("Contributor",
         <<Leaf("SequenceNumber", PyStr(str(PyInt(i - 1)))),
           Leaf("ContributorRole", PyStr("A01")),
           Leaf("PersonName", author.full_name)>>
         \o (IF Truthy(author.biography)
             THEN <<Leaf("BiographicalNote", author.biography)>>
             ELSE <<>>))

\* One Contributor; i is the position enumerate(authors, 1) gives.
Contributor(i, author) ==
    Node("Contributor",
         <<Leaf("SequenceNumber", PyStr(str(PyInt(i)))),
           Leaf("ContributorRole", PyStr("A01")),
           Leaf("PersonName", author.full_name)>>
         \o (IF Truthy(author.biography)
             THEN <<Leaf("BiographicalNote", author.biography)>>
             ELSE <<>>))

TitleDetail(level, text) ==
    Node("TitleDetail",
         <<Leaf("TitleType", PyStr("01")),
           Node("TitleElement",
                <<Leaf("TitleElementLevel", PyStr(level)),
                  Leaf("TitleText", text)>>)>>)

\* _create_descriptive_detail with the two default codes exchanged
DescriptiveDetailDefaultsSwapped(product_elem, product, authorList, collection_title) ==
    LET contributors == [i \in 1..Len(authorList) |-> Contributor(i, authorList[i])]
        collection ==
            IF Truthy(collection_title)
            THEN <<Node("Collection",
                        <<Leaf("CollectionType", PyStr("10")),
                          TitleDetail("02", collection_title)>>)>>
            ELSE <<>>
        language == Node("Language",
                         <<Leaf("LanguageRole", PyStr("01")),
                           Leaf("LanguageCode", Or(product.language, PyStr("BC")))>>)
        desc == Node("DescriptiveDetail",
                     <<Leaf("ProductComposition", PyStr("00")),
                       Leaf("ProductForm", Or(product.product_form, PyStr("ukr"))),
                       TitleDetail("01", product.title)>>
                     \o contributors \o collection \o <<language>>)
    IN SubElement(product_elem, desc)

\* Block 2
_create_descriptive_detail(product_elem, product, authorList, collection_title) ==
    LET contributors == [i \in 1..Len(authorList) |-> Contributor(i, authorList[i])]
        collection ==
            IF Truthy(collection_title)
            THEN <<Node("Collection",
                        <<Leaf("CollectionType", PyStr("10")),
                          TitleDetail("02", collection_title)>>)>>
            ELSE <<>>
        language == Node("Language",
                         <<Leaf("LanguageRole", PyStr("01")),
                           Leaf("LanguageCode", Or(product.language, PyStr("ukr")))>>)
        desc == Node("DescriptiveDetail",
                     <<Leaf("ProductComposition", PyStr("00")),
                       Leaf("ProductForm", Or(product.product_form, PyStr("BC"))),
                       TitleDetail("01", product.title)>>
                     \o contributors \o collection \o <<language>>)
    IN SubElement(product_elem, desc)

\* TextContentElem that writes the audience before the type
TextContentElemAudienceFirst(tc) ==
    Node("TextContent",
         <<Leaf("ContentAudience", get(tc, "content_audience", PyStr("00"))),
           Leaf("TextType", get(tc, "text_type", PyStr("03"))),
           Leaf("Text", get(tc, "text", PyStr("")))>>)

TextContentElem(tc) ==
    Node("TextContent",
         <<Leaf("TextType", get(tc, "text_type", PyStr("03"))),
           Leaf("ContentAudience", get(tc, "content_audience", PyStr("00"))),
           Leaf("Text", get(tc, "text", PyStr("")))>>)

SupportingResourceElem(res) ==
    Node("SupportingResource",
         <<Leaf("ResourceContentType", get(res, "resource_content_type", PyStr("01"))),
           Leaf("ContentAudience", PyStr("00")),
           Leaf("ResourceMode", get(res, "resource_mode", PyStr("03"))),
           Node("ResourceVersion",
                <<Leaf("ResourceForm", PyStr("02")),
                  Leaf("ResourceLink", get(res, "resource_link", PyStr("")))>>)>>)

\* _create_collateral_detail that leaves the container out when it would be empty
CollateralDetailUnlessEmpty(product_elem, onix_json) ==
    IF ~Truthy(onix_json) THEN product_elem
    ELSE LET text_contents == get(onix_json, "text_content", PyList(<<>>))
             resources == get(onix_json, "supporting_resources", PyList(<<>>))
         IN IF ~Iterable(text_contents) THEN Raise("TypeError")
            ELSE IF ~Iterable(resources) THEN Raise("TypeError")
            ELSE IF ~Truthy(text_contents) /\ ~Truthy(resources) THEN product_elem
            ELSE SubElement(product_elem,
                   Node("CollateralDetail",
                        [i \in 1..Len(text_contents.v) |->
                            TextContentElem(text_contents.v[i])]
                        \o [i \in 1..Len(resources.v) |->
                            SupportingResourceElem(resources.v[i])]))

\* Block 3.  Returns product_elem as the call leaves it, or the exception.
_create_collateral_detail(product_elem, onix_json) ==
    IF ~Truthy(onix_json) THEN product_elem
    ELSE LET text_contents == get(onix_json, "text_content", PyList(<<>>))
             resources == get(onix_json, "supporting_resources", PyList(<<>>))
         IN IF ~Iterable(text_contents) THEN Raise("TypeError")
            ELSE IF ~Iterable(resources) THEN Raise("TypeError")
            ELSE SubElement(product_elem,
                   Node("CollateralDetail",
                        [i \in 1..Len(text_contents.v) |->
                            TextContentElem(text_contents.v[i])]
                        \o [i \in 1..Len(resources.v) |->
                            SupportingResourceElem(resources.v[i])]))

\* _create_publishing_detail that appends the status to a publisher's detail only
PublishingDetailStatusWithPublisher(product_elem, publisher) ==
    SubElement(product_elem,
               Node("PublishingDetail",
                    IF Truthy(publisher)
                    THEN <<Node("Publisher",
                                <<Leaf("PublishingRole", PyStr("01")),
                                  Leaf("PublisherName", publisher.name)>>),
                           Leaf("PublishingStatus", PyStr("04"))>>
                    ELSE <<>>))

\* Block 5
_create_publishing_detail(product_elem, publisher) ==
    LET pub == IF Truthy(publisher)
               THEN <<Node("Publisher",
                           <<Leaf("PublishingRole", PyStr("01")),
                             Leaf("PublisherName", publisher.name)>>
                           \o (IF Truthy(publisher.gln)
                               THEN <<Node("PublisherIdentifier",
                                           <<Leaf("PublisherIDType", PyStr("06")),
                                             Leaf("IDValue", publisher.gln)>>)>>
                               ELSE <<>>))>>
               ELSE <<>>
    IN SubElement(product_elem,
                  Node("PublishingDetail",
                       pub \o <<Leaf("PublishingStatus", PyStr("04"))>>))

\* PriceElem that tests `tax_rate_percent is not None`: a rate of 0.0 gets a Tax
PriceElemTaxUnlessNone(price_data) ==
    Node("Price",
         <<Leaf("PriceType", get(price_data, "price_type", PyStr("01"))),
           Leaf("PriceAmount", PyStr(str(get(price_data, "price_amount", PyInt(0))))),
           Leaf("CurrencyCode", get(price_data, "currency_code", PyStr("UAH")))>>
         \o (IF get(price_data, "tax_rate_percent", None) # None
             THEN <<Node("Tax",
                         <<Leaf("TaxType", PyStr("01")),
                           Leaf("TaxRateCode", get(price_data, "tax_rate_code", PyStr("S"))),
                           Leaf("TaxRatePercent",
                                PyStr(str(get(price_data, "tax_rate_percent", PyInt(20)))))>>)>>
             ELSE <<>>))

PriceElem(price_data) ==
    Node("Price",
         <<Leaf("PriceType", get(price_data, "price_type", PyStr("01"))),
           Leaf("PriceAmount", PyStr(str(get(price_data, "price_amount", PyInt(0))))),
           Leaf("CurrencyCode", get(price_data, "currency_code", PyStr("UAH")))>>
         \o (IF Truthy(get(price_data, "tax_rate_percent", None))
             THEN <<Node("Tax",
                         <<Leaf("TaxType", PyStr("01")),
                           Leaf("TaxRateCode", get(price_data, "tax_rate_code", PyStr("S"))),
                           Leaf("TaxRatePercent",
                                PyStr(str(get(price_data, "tax_rate_percent", PyInt(20)))))>>)>>
             ELSE <<>>))

\* _create_product_supply that tests `prices is None` instead of `not prices`
ProductSupplyUnlessNone(product_elem, onix_json) ==
    LET prices == IF Truthy(onix_json) THEN get(onix_json, "prices", PyList(<<>>))
                  ELSE PyList(<<>>)
    IN IF ~Iterable(prices) THEN product_elem
       ELSE SubElement(product_elem,
              Node("ProductSupply",
                   <<Node("SupplyDetail",
                          <<Leaf("ProductAvailability", PyStr("20"))>>
                          \o [i \in 1..Len(prices.v) |-> PriceElem(prices.v[i])])>>))

\* Block 7
_create_product_supply(product_elem, onix_json) ==
    LET prices == IF Truthy(onix_json) THEN get(onix_json, "prices", PyList(<<>>))
                  ELSE PyList(<<>>)
    IN IF ~Truthy(prices) THEN product_elem
       ELSE SubElement(product_elem,
              Node("ProductSupply",
                   <<Node("SupplyDetail",
                          <<Leaf("ProductAvailability", PyStr("20"))>>
                          \o [i \in 1..Len(prices.v) |-> PriceElem(prices.v[i])])>>))

\* etree.tostring(root, encoding="unicode", pretty_print=True,
\* xml_declaration=True).  The text is held as what it spells out: the XML
\* declaration and the element tree in document order.  Indentation, the
\* namespace binding and character escaping are not modelled, nor are lxml's
\* own checks of the arguments it is given.
tostring(root) == [t |-> "document", xml_declaration |-> TRUE, root |-> root]

\* ProductElem with blocks 5 and 7 built in the opposite order
ProductElemSupplyFirst(product, authorList, publisher, collection_title) ==
    LET p0 == Node("Product",
                   <<Leaf("RecordReference", PyStr(str(product.id))),
                     Leaf("NotificationType", PyStr("03"))>>)
        p1 == _create_product_identifiers(p0, product.isbn_13)
        p2 == _create_descriptive_detail(p1, product, authorList, collection_title)
        p3 == IF Truthy(product.onix_json)
              THEN _create_collateral_detail(p2, product.onix_json)
              ELSE p2
        p4 == IF IsRaise(p3) THEN p3
              ELSE IF Truthy(product.onix_json)
                   THEN _create_product_supply(p3, product.onix_json)
                   ELSE p3
    IN IF IsRaise(p4) THEN p4 ELSE _create_publishing_detail(p4, publisher)

\* The Product element with its blocks, or the exception a block raised.
ProductElem(product, authorList, publisher, collection_title) ==
    LET p0 == Node("Product",
                   <<Leaf("RecordReference", PyStr(str(product.id))),
                     Leaf("NotificationType", PyStr("03"))>>)
        p1 == _create_product_identifiers(p0, product.isbn_13)
        p2 == _create_descriptive_detail(p1, product, authorList, collection_title)
        p3 == IF Truthy(product.onix_json)
              THEN _create_collateral_detail(p2, product.onix_json)
              ELSE p2
        p4 == IF IsRaise(p3) THEN p3 ELSE _create_publishing_detail(p3, publisher)
        p5 == IF IsRaise(p4) THEN p4
              ELSE IF Truthy(product.onix_json)
                   THEN _create_product_supply(p4, product.onix_json)
                   ELSE p4
    IN p5

\* generate_product_xml that catches the exception of a block and returns the
\* document as far as it was built (the blocks up to DescriptiveDetail)
GenerateProductXmlPartial(gen, product, authorList, publisher, collection_title) ==
    LET root == Element("ONIXMessage")
        withHeader == _create_header(gen, root)
        product_elem == ProductElem(product, authorList, publisher, collection_title)
        p0 == Node("Product",
                   <<Leaf("RecordReference", PyStr(str(product.id))),
                     Leaf("NotificationType", PyStr("03"))>>)
        p1 == _create_product_identifiers(p0, product.isbn_13)
        p2 == _create_descriptive_detail(p1, product, authorList, collection_title)
    IN IF IsRaise(product_elem) THEN tostring(SubElement(withHeader, p2))
       ELSE tostring(SubElement(withHeader, product_elem))

\* generate_product_xml: the document, or the exception that escapes the call.
generate_product_xml(gen, product, authorList, publisher, collection_title) ==
    LET root == Element("ONIXMessage")
        withHeader == _create_header(gen, root)
        product_elem == ProductElem(product, authorList, publisher, collection_title)
    IN IF IsRaise(product_elem) THEN product_elem
       ELSE tostring(SubElement(withHeader, product_elem))

----------------------------------------------------------------------------
(* ORM objects (app/models/models.py).                                     *)

Publisher(id, name, gln) == [t |-> "Publisher", id |-> id, name |-> name, gln |-> gln]

Author(id, full_name, biography) ==
    [t |-> "Author", id |-> id, full_name |-> full_name, biography |-> biography]

Collection(id, title) == [t |-> "Collection", id |-> id, title |-> title]

Product(id, isbn_13, title, publisher_id, collection_id, product_form, language, onix_json) ==
    [t |-> "Product", id |-> id, isbn_13 |-> isbn_13, title |-> title,
     publisher_id |-> publisher_id, collection_id |-> collection_id,
     product_form |-> product_form, language |-> language, onix_json |-> onix_json]

ProductAuthor(product_id, author_id, role_code, sequence_number) ==
    [t |-> "ProductAuthor", product_id |-> product_id, author_id |-> author_id,
     role_code |-> role_code, sequence_number |-> sequence_number]

----------------------------------------------------------------------------
(* The values the model draws its inputs from.                             *)

Range(s) == {s[i] : i \in DOMAIN s}

\* all sequences over S of length at most n
SeqsUpTo(S, n) == UNION {[1..k -> S] : k \in 0..n}

Uuid1 == PyUUID("00000000000040008000000000000001")
Uuid2 == PyUUID("00000000000040008000000000000002")
Uuid3 == PyUUID("00000000000040008000000000000003")

GoodIsbn == "9781234567897"
ShortIsbn == "12345"

Isbns == {PyStr(GoodIsbn), PyStr(ShortIsbn), None}
ProductForms == {None, PyStr(""), PyStr("BB")}
Languages == {None, PyStr("eng")}

AuthorA == Author(Uuid1, PyStr("A"), None)
AuthorB == Author(Uuid2, PyStr("B"), PyStr("Born in B."))
AuthorObjects == {AuthorA, AuthorB}

\* The second publisher's GLN is the 13 characters of the product's ISBN.
PublisherObjects ==
    {Publisher(Uuid3, PyStr("Kyiv Press"), None),
     Publisher(Uuid3, PyStr("Kyiv Press"), PyStr(GoodIsbn))}

CollectionTitles == {None, PyStr(""), PyStr("Series")}

\* text_content entries: one as the ingest schema dumps it, one with only a text
TextContents ==
    {PyDict([text_type |-> PyStr("02"), content_audience |-> PyStr("01"),
             text |-> PyStr("Short")]),
     PyDict([text |-> PyStr("Annotation")])}

\* supporting_resources entries: one with every key, one with only a link
SupportingResources ==
    {PyDict([resource_content_type |-> PyStr("02"), resource_mode |-> PyStr("04"),
             resource_link |-> PyStr("http://x/cover.jpg")]),
     PyDict([resource_link |-> PyStr("http://x/back.jpg")])}

\* prices: taxed at 20.0, tax fields null, tax percent 0.0 with other keys missing
Prices ==
    {PyDict([price_type |-> PyStr("02"), price_amount |-> PyFloat(250, 5),
             currency_code |-> PyStr("EUR"), tax_rate_code |-> PyStr("Z"),
             tax_rate_percent |-> PyFloat(20, 0)]),
     PyDict([price_type |-> PyStr("01"), price_amount |-> PyFloat(100, 0),
             currency_code |-> PyStr("UAH"), tax_rate_code |-> None,
             tax_rate_percent |-> None]),
     PyDict([price_amount |-> PyInt(99), tax_rate_percent |-> PyFloat(0, 0)])}

Absent == [t |-> "absent"]

\* what a key of onix_json may hold: nothing (key missing), null, or a list
SubLists(S) == {Absent, None} \cup {PyList(l) : l \in SeqsUpTo(S, MaxItems)}

\* the dict with the keys that are not Absent
OnixDict(tc, sr, pr) ==
    LET all == [text_content |-> tc, supporting_resources |-> sr, prices |-> pr]
        keys == {k \in DOMAIN all : all[k] # Absent}
    IN PyDict([k \in keys |-> all[k]])

FirstText == CHOOSE tc \in TextContents : "text_type" \in DOMAIN tc.v
FirstResource == CHOOSE sr \in SupportingResources : "resource_mode" \in DOMAIN sr.v
TaxedPrice == CHOOSE pr \in Prices : Truthy(get(pr, "tax_rate_percent", None))

\* onix_json by shape: missing, empty, every sub-list null (an ingest with no
\* sub-list set), prices alone, empty lists alone, one entry of each kind
OnixShapes ==
    {None,
     PyDict(EmptyDict),
     OnixDict(None, None, None),
     OnixDict(Absent, Absent, PyList(<<TaxedPrice>>)),
     OnixDict(PyList(<<>>), PyList(<<>>), Absent),
     OnixDict(PyList(<<FirstText>>), PyList(<<FirstResource>>), PyList(<<TaxedPrice>>))}

Aggregate(product, authorList, publisher, collection_title) ==
    [t |-> "call", product |-> product, authors |-> authorList,
     publisher |-> publisher, collection_title |-> collection_title]

AuthorLists == SeqsUpTo(AuthorObjects, MaxAuthors)

\* The product, its publisher and collection in every combination, against
\* metadata of each shape, without authors and with two of them ...
CoreAggregates ==
    {Aggregate(Product(Uuid1, isbn, PyStr("Kobzar"), None, None, pf, lang, onix),
               al, pub, ct) :
        isbn \in Isbns, pf \in ProductForms, lang \in Languages,
        onix \in OnixShapes, al \in {<<>>, <<AuthorB, AuthorA>>},
        pub \in {None} \cup PublisherObjects, ct \in CollectionTitles}

\* ... every author list against everything else _create_descriptive_detail
\* reads (the product's codes, the collection title) ...
DescriptiveAggregates ==
    {Aggregate(Product(Uuid1, PyStr(GoodIsbn), PyStr("Kobzar"), None, None, pf, lang,
                       None),
               al, None, ct) :
        pf \in ProductForms, lang \in Languages, al \in AuthorLists,
        ct \in CollectionTitles}

\* what _create_collateral_detail reads in every combination, with prices and
\* without, and what _create_product_supply reads in every combination,
\* behind a collateral block that is left out, raises, or is built
OnixJsons ==
    {OnixDict(tc, sr, pr) : tc \in SubLists(TextContents),
                            sr \in SubLists(SupportingResources),
                            pr \in {Absent, PyList(<<TaxedPrice>>)}}
    \cup {OnixDict(tc, sr, pr) : tc \in {Absent, None, PyList(<<FirstText>>)},
                                 sr \in {Absent, PyList(<<FirstResource>>)},
                                 pr \in SubLists(Prices)}

\* ... and the metadata in these combinations of its sub-lists, against one
\* product (the block builders of the metadata read nothing but onix_json).
MetadataAggregates ==
    {Aggregate(Product(Uuid1, PyStr(GoodIsbn), PyStr("Kobzar"), None, None,
                       PyStr("BB"), PyStr("eng"), onix),
               <<AuthorA>>, CHOOSE pub \in PublisherObjects : Truthy(pub.gln),
               PyStr("Series")) :
        onix \in OnixJsons}

Aggregates == CoreAggregates \cup DescriptiveAggregates \cup MetadataAggregates

Senders ==
    {OnixXmlGenerator(PyStr("ONIX Book System"), PyStr("")),
     OnixXmlGenerator(PyStr("Kyiv Press"), PyStr("onix@example.org"))}

Clock ==
    {[year |-> 2026, month |-> 1, day |-> 5, hour |-> 9, minute |-> 30, second |-> s] :
        s \in {7, 8}}

NoCall == [t |-> "nocall"]

----------------------------------------------------------------------------
(* The encoder and its caller.                                             *)

Init ==
    /\ self \in Senders
    /\ now \in Clock
    /\ pc = "idle"
    /\ call = NoCall
    /\ result = None
    /\ result2 = None
    /\ publishers = <<>>
    /\ authors = <<>>
    /\ collections = <<>>
    /\ products = <<>>
    /\ product_authors = <<>>
    /\ response = None

\* what a call leaves with its caller, with the generator and the clock it read
Outcome == [t |-> "outcome", gen |-> self, clock |-> now,
            value |-> generate_product_xml(self, call'.product, call'.authors,
                                           call'.publisher, call'.collection_title)]

\* a caller builds an aggregate and encodes it
GenerateProductXml ==
    /\ pc = "idle"
    /\ \E agg \in Aggregates : call' = agg
    /\ result' = Outcome
    /\ pc' = "returned"
    /\ UNCHANGED <<self, now, result2, dbVars, response>>

\* a second call by an encoder that consumes the author list as it writes the
\* contributors
GenerateAgainConsuming ==
    /\ pc = "returned"
    /\ call' = [call EXCEPT !.authors = <<>>]
    /\ result2' = [t |-> "outcome", gen |-> self, clock |-> now,
                   value |-> generate_product_xml(self, call.product, call.authors,
                                                  call.publisher, call.collection_title)]
    /\ pc' = "again"
    /\ UNCHANGED <<self, now, result, dbVars, response>>

\* the caller encodes the same aggregate once more
GenerateAgain ==
    /\ pc = "returned"
    /\ call' = call
    /\ result2' = Outcome
    /\ pc' = "again"
    /\ UNCHANGED <<self, now, result, dbVars, response>>

\* the aggregate and the documents are dropped
Discard ==
    /\ pc \in {"returned", "again"}
    /\ pc' = "idle"
    /\ call' = NoCall
    /\ result' = None
    /\ result2' = None
    /\ UNCHANGED <<self, now, dbVars, response>>

\* the wall clock advances
Tick ==
    /\ pc \in {"idle", "returned"}
    /\ \E d \in Clock : d.second > now.second /\ now' = d
    /\ UNCHANGED <<self, pc, call, result, result2, dbVars, response>>

Next == GenerateProductXml \/ GenerateAgain \/ Discard \/ Tick

Spec == Init /\ [][Next]_vars

----------------------------------------------------------------------------
(* Request schemas (app/schemas/schemas.py), with their defaults applied.  *)

TextContent(text_type, content_audience, text) ==
    [t |-> "TextContent", text_type |-> text_type,
     content_audience |-> content_audience, text |-> text]

SupportingResource(resource_content_type, resource_mode, resource_link) ==
    [t |-> "SupportingResource", resource_content_type |-> resource_content_type,
     resource_mode |-> resource_mode, resource_link |-> resource_link]

Price(price_type, price_amount, currency_code, tax_rate_code, tax_rate_percent) ==
    [t |-> "Price", price_type |-> price_type, price_amount |-> price_amount,
     currency_code |-> currency_code, tax_rate_code |-> tax_rate_code,
     tax_rate_percent |-> tax_rate_percent]

\* subjects and extra are left at their default, None
OnixJson(text_content, supporting_resources, prices) ==
    [t |-> "OnixJson", text_content |-> text_content,
     supporting_resources |-> supporting_resources, prices |-> prices,
     subjects |-> None, extra |-> None]

ProductAuthorBase(author_id, role_code, sequence_number) ==
    [t |-> "ProductAuthorBase", author_id |-> author_id, role_code |-> role_code,
     sequence_number |-> sequence_number]

ProductCreate(isbn_13, title, publisher_id, collection_id, product_form, language, onix_json, authorRefs) ==
    [t |-> "ProductCreate", isbn_13 |-> isbn_13, title |-> title,
     publisher_id |-> publisher_id, collection_id |-> collection_id,
     product_form |-> product_form, language |-> language,
     onix_json |-> onix_json, authors |-> authorRefs]

SchemaClasses == {"TextContent", "SupportingResource", "Price", "OnixJson"}

\* BaseModel.model_dump(): every field becomes a key, set or not
RECURSIVE model_dump(_)
model_dump(m) ==
    CASE m.t = "list" -> PyList([i \in DOMAIN m.v |-> model_dump(m.v[i])])
      [] m.t \in SchemaClasses ->
            PyDict([k \in DOMAIN m \ {"t"} |-> model_dump(m[k])])
      [] OTHER -> m

Digits == {"0", "1", "2", "3", "4", "5", "6", "7", "8", "9"}

\* Field(min_length=13, max_length=13) and re.match(r"^[0-9]{13}$", v)
validate_isbn(v) ==
    /\ Len(v) = 13
    /\ \A i \in 1..Len(v) : SubSeq(v, i, i) \in Digits

----------------------------------------------------------------------------
(* The HTTP handlers (app/api/products.py) over the tables.                *)

\* highest sequence_number a request gives an author
MaxSequenceNumber == 2

AuthorIds == {Uuid1, Uuid2}
PublisherIds == {Uuid3}
Uuid4 == PyUUID("00000000000040008000000000000004")
Uuid5 == PyUUID("00000000000040008000000000000005")
ProductIds == {Uuid5}

Ids(table) == {table[i].id : i \in DOMAIN table}

\* id = Column(..., default=uuid.uuid4): an id no row of the table has
NewId(pool, table) == CHOOSE id \in pool \ Ids(table) : TRUE

\* injective sequences over S: the orders a query without ORDER BY may return
Orders(S) ==
    {o \in [1..Cardinality(S) -> S] : \A i, j \in DOMAIN o : i # j => o[i] # o[j]}

\* select(table).where(id == x), scalar_one_or_none()
ById(table, id) ==
    IF \E i \in DOMAIN table : table[i].id = id
    THEN table[CHOOSE i \in DOMAIN table : table[i].id = id]
    ELSE None

Response(handler, isbn, status_code, content) ==
    [t |-> "response", handler |-> handler, isbn |-> isbn,
     status_code |-> status_code, content |-> content]

InitApi ==
    /\ self = OnixXmlGenerator(PyStr("ONIX Book System"), PyStr(""))
    /\ now \in Clock
    /\ pc = "idle"
    /\ call = NoCall
    /\ result = None
    /\ result2 = None
    /\ publishers = <<>>
    /\ authors = <<>>
    /\ collections = <<Collection(Uuid4, PyStr("Series"))>>
    /\ products = <<>>
    /\ product_authors = <<>>
    /\ response = None

\* POST /api/publishers
create_publisher ==
    /\ PublisherIds \ Ids(publishers) # {}
    /\ \E gln \in {None, PyStr(GoodIsbn)} :
          publishers' = Append(publishers, Publisher(NewId(PublisherIds, publishers),
                                                     PyStr("Kyiv Press"), gln))
    /\ response' = Response("create_publisher", None, 201, None)
    /\ UNCHANGED <<encoderVars, authors, collections, products, product_authors>>

\* POST /api/authors
create_author ==
    /\ AuthorIds \ Ids(authors) # {}
    /\ \E a \in AuthorObjects :
          authors' = Append(authors, Author(NewId(AuthorIds, authors),
                                            a.full_name, a.biography))
    /\ response' = Response("create_author", None, 201, None)
    /\ UNCHANGED <<encoderVars, publishers, collections, products, product_authors>>

\* the onix_json a request may carry
IngestOnix ==
    LET tc == PyList(<<TextContent(PyStr("03"), PyStr("00"), PyStr("Annotation"))>>)
        sr == PyList(<<SupportingResource(PyStr("01"), PyStr("03"),
                                          PyStr("http://x/cover.jpg"))>>)
        pr == PyList(<<Price(PyStr("01"), PyFloat(100, 0), PyStr("UAH"),
                             PyStr("S"), PyFloat(20, 0))>>)
    IN {None, OnixJson(None, None, pr), OnixJson(tc, sr, pr)}

\* the author references a request may carry: distinct stored authors, in any
\* order, each with a sequence_number >= 1
IngestAuthors ==
    {None} \cup
    UNION {{PyList([i \in DOMAIN o |-> ProductAuthorBase(o[i], PyStr("A01"), sq[i])]) :
                sq \in [DOMAIN o -> 1..MaxSequenceNumber]} :
           o \in UNION {Orders(S) : S \in SUBSET Ids(authors) \ {{}}}}

\* Product(**product.model_dump(exclude={"authors"}), embedding=...)
NewProduct(id, p) ==
    Product(id, PyStr(p.isbn_13), p.title, p.publisher_id, p.collection_id,
            p.product_form, p.language, model_dump(p.onix_json))

\* the ProductAuthor rows of a request, in the order of the request
NewProductAuthors(id, p) ==
    IF ~Truthy(p.authors) THEN <<>>
    ELSE [i \in DOMAIN p.authors.v |->
            ProductAuthor(id, p.authors.v[i].author_id, p.authors.v[i].role_code,
                          p.authors.v[i].sequence_number)]

\* POST /api/products
create_product ==
    /\ \E isbn \in {GoodIsbn, ShortIsbn} :
          \/ /\ ~validate_isbn(isbn)
             /\ response' = Response("create_product", PyStr(isbn), 422, None)
             /\ UNCHANGED <<products, product_authors>>
          \/ /\ validate_isbn(isbn)
             /\ \E i \in DOMAIN products : products[i].isbn_13 = PyStr(isbn)
             /\ response' = Response("create_product", PyStr(isbn), 400, None)
             /\ UNCHANGED <<products, product_authors>>
          \/ /\ validate_isbn(isbn)
             /\ ~\E i \in DOMAIN products : products[i].isbn_13 = PyStr(isbn)
             /\ ProductIds \ Ids(products) # {}
             /\ \E publisher_id \in {None} \cup Ids(publishers),
                   collection_id \in {None} \cup Ids(collections),
                   onix_json \in IngestOnix,
                   authorRefs \in IngestAuthors :
                   LET p == ProductCreate(isbn, PyStr("Kobzar"), publisher_id,
                                          collection_id, PyStr("BC"), PyStr("ukr"),
                                          onix_json, authorRefs)
                       id == NewId(ProductIds, products)
                   IN /\ products' = Append(products, NewProduct(id, p))
                      /\ product_authors' = product_authors \o NewProductAuthors(id, p)
             /\ response' = Response("create_product", PyStr(isbn), 201, None)
    /\ UNCHANGED <<encoderVars, publishers, authors, collections>>

\* GET /api/products/{isbn}/onix
export_product_onix ==
    \E isbn \in {GoodIsbn, ShortIsbn} :
        /\ IF ~\E i \in DOMAIN products : products[i].isbn_13 = PyStr(isbn)
           THEN response' = Response("export_product_onix", PyStr(isbn), 404, None)
           ELSE LET product == products[CHOOSE i \in DOMAIN products :
                                            products[i].isbn_13 = PyStr(isbn)]
                    author_ids == {product_authors[i].author_id :
                                     i \in {j \in DOMAIN product_authors :
                                              product_authors[j].product_id = product.id}}
                    publisher == IF Truthy(product.publisher_id)
                                 THEN ById(publishers, product.publisher_id)
                                 ELSE None
                    collection == IF Truthy(product.collection_id)
                                  THEN ById(collections, product.collection_id)
                                  ELSE None
                    collection_title == IF Truthy(collection) THEN collection.title
                                        ELSE None
                    generator == OnixXmlGenerator(PyStr("ONIX Book System"), PyStr(""))
                IN \E authorList \in Orders({ById(authors, id) : id \in author_ids}) :
                     LET xml_content == generate_product_xml(generator, product, authorList,
                                                            publisher, collection_title)
                     IN response' =
                          IF IsRaise(xml_content)
                          THEN Response("export_product_onix", PyStr(isbn), 500, xml_content)
                          ELSE Response("export_product_onix", PyStr(isbn), 200, xml_content)
        /\ UNCHANGED <<encoderVars, dbVars>>

NextApi == create_publisher \/ create_author \/ create_product \/ export_product_onix

ApiSpec == InitApi /\ [][NextApi]_vars

----------------------------------------------------------------------------
(* Reading a document.                                                     *)

\* the call has returned a document (it did not raise)
Encoded == pc # "idle" /\ ~IsRaise(result.value)

Root == result.value.root

\* the tags of an element's children, in document order
Tags(e) == [i \in DOMAIN e.children |-> e.children[i].tag]

\* an element's children with the given tag, in document order
Children(e, tag) == SelectSeq(e.children, LAMBDA c : c.tag = tag)

Has(e, tag) == \E i \in DOMAIN e.children : e.children[i].tag = tag

\* the only child with the given tag
Child(e, tag) == Children(e, tag)[1]

ProductOf(root) == Child(root, "Product")

----------------------------------------------------------------------------
(* C1: whatever optional data is present, the children of ONIXMessage are  *)
(* Header then Product, and the children of Product are RecordReference,   *)
(* NotificationType, ProductIdentifier, DescriptiveDetail, CollateralDetail *)
(* (if emitted), PublishingDetail, ProductSupply (if emitted), each at most *)
(* once and in this relative order.                                        *)

BlockOrder ==
    <<"RecordReference", "NotificationType", "ProductIdentifier", "DescriptiveDetail",
      "CollateralDetail", "PublishingDetail", "ProductSupply">>

OptionalBlocks == {"CollateralDetail", "ProductSupply"}

InBlockOrder(tags) ==
    /\ tags = SelectSeq(BlockOrder, LAMBDA b : b \in Range(tags))
    /\ Range(BlockOrder) \ OptionalBlocks \subseteq Range(tags)

C1_BlockOrder ==
    Encoded => /\ Tags(Root) = <<"Header", "Product">>
               /\ InBlockOrder(Tags(ProductOf(Root)))

\* a document with both optional blocks, a collection and a contributor
C1_Witness ==
    /\ Encoded
    /\ Tags(ProductOf(Root)) = BlockOrder
    /\ Has(Child(ProductOf(Root), "DescriptiveDetail"), "Collection")
    /\ Has(Child(ProductOf(Root), "DescriptiveDetail"), "Contributor")

----------------------------------------------------------------------------
(* Reading an export response.                                             *)

\* the last request was an export of a stored product
Exported == response.t = "response" /\ response.handler = "export_product_onix"
            /\ response.status_code # 404

\* ... and it was answered with a document
ExportedOk == Exported /\ response.status_code = 200

ExportedProduct ==
    products[CHOOSE i \in DOMAIN products : products[i].isbn_13 = response.isbn]

\* PersonName of each Contributor of a document, in document order
PersonNames(root) ==
    LET cs == Children(Child(ProductOf(root), "DescriptiveDetail"), "Contributor")
    IN [i \in DOMAIN cs |-> Child(cs[i], "PersonName").text]

\* rows ordered by ascending sequence_number from n on, ties in the order given
RECURSIVE BySequenceNumber(_, _)
BySequenceNumber(rows, n) ==
    IF n > MaxSequenceNumber THEN <<>>
    ELSE SelectSeq(rows, LAMBDA r : r.sequence_number = n)
         \o BySequenceNumber(rows, n + 1)

\* the names of a product's authors by ascending sequence_number
NamesBySequenceNumber(product) ==
    LET rows == BySequenceNumber(
                    SelectSeq(product_authors, LAMBDA r : r.product_id = product.id), 1)
    IN [i \in DOMAIN rows |-> ById(authors, rows[i].author_id).full_name]

----------------------------------------------------------------------------
(* C2: the Contributor elements of an exported document are listed by      *)
(* ascending sequence_number of the product's authors, ties broken by the  *)
(* order the authors were given in; authors [(B, seq=2), (A, seq=1)] come  *)
(* out as A, B.  (As stated by the claim; the code does not do this.)      *)

C2_ContributorsBySequenceNumber ==
    ExportedOk => PersonNames(response.content.root)
                    = NamesBySequenceNumber(ExportedProduct)

----------------------------------------------------------------------------
(* C4: a missing optional sub-block or field never makes encoding fail:    *)
(* every export of a stored product, whichever of its optional sub-lists   *)
(* the ingest left unset (and so stored as null), is answered with a       *)
(* document.  (As stated by the claim; the code does not do this.)         *)

C4_OptionalNeverFails == Exported => ~IsRaise(response.content)

----------------------------------------------------------------------------
(* Reading the aggregate a call was given.                                 *)

\* x is given and not empty: the test the code makes of it (`if x:`).  A
\* missing value, an empty string and an empty dict all count as not present.
Present(x) == Truthy(x)

\* the list under a key of the metadata; none when the metadata, the key or
\* the list itself is missing
Entries(onix_json, key) ==
    IF ~Present(onix_json) THEN <<>>
    ELSE LET l == get(onix_json, key, None)
         IN IF l.t = "list" THEN l.v ELSE <<>>

Digits13(x) == x.t = "str" /\ validate_isbn(x.v)

DescriptiveDetailOf(root) == Child(ProductOf(root), "DescriptiveDetail")
PublishingDetailOf(root) == Child(ProductOf(root), "PublishingDetail")

----------------------------------------------------------------------------
(* C3: encoding a product whose ISBN-13 is absent or malformed (not        *)
(* exactly 13 digits) raises MissingRequiredField, and no document is ever *)
(* returned whose ProductIdentifier carries a malformed IDValue.  (As      *)
(* stated by the claim; the code does not do this.)                        *)

C3_MalformedIsbnRefused ==
    /\ (pc # "idle" /\ ~Digits13(call.product.isbn_13))
          => result.value = Raise("MissingRequiredField")
    /\ Encoded
          => Digits13(Child(Child(ProductOf(Root), "ProductIdentifier"), "IDValue").text)

----------------------------------------------------------------------------
(* C5: each optional block is in the document exactly when its driving     *)
(* input is present: Collection iff collection_title, Publisher iff        *)
(* publisher, CollateralDetail iff the supplementary metadata,             *)
(* ProductSupply iff prices is non-empty; PublishingDetail holds           *)
(* PublishingStatus either way.                                            *)

C5_OptionalBlocks ==
    Encoded =>
        /\ Has(DescriptiveDetailOf(Root), "Collection") <=> Present(call.collection_title)
        /\ Has(PublishingDetailOf(Root), "Publisher") <=> Present(call.publisher)
        /\ Has(ProductOf(Root), "CollateralDetail") <=> Present(call.product.onix_json)
        /\ Has(ProductOf(Root), "ProductSupply")
              <=> Entries(call.product.onix_json, "prices") # <<>>
        /\ Has(PublishingDetailOf(Root), "PublishingStatus")

\* no publisher, no collection, no metadata (so no prices): none of the
\* optional blocks, and a PublishingDetail holding only PublishingStatus
C5_Witness ==
    /\ Encoded
    /\ call.publisher = None
    /\ call.collection_title = None
    /\ call.product.onix_json = None
    /\ Tags(PublishingDetailOf(Root)) = <<"PublishingStatus">>
    /\ ~Has(DescriptiveDetailOf(Root), "Collection")
    /\ ~Has(ProductOf(Root), "CollateralDetail")
    /\ ~Has(ProductOf(Root), "ProductSupply")

----------------------------------------------------------------------------
(* C6 as claimed: no empty container is emitted, so CollateralDetail,      *)
(* ProductSupply and SupplyDetail never appear without content children.   *)

RECURSIVE ElementsOf(_)
RECURSIVE ElementsIn(_)
\* an element and its descendants, in document order
ElementsOf(e) == <<e>> \o ElementsIn(e.children)
ElementsIn(es) == IF es = <<>> THEN <<>> ELSE ElementsOf(Head(es)) \o ElementsIn(Tail(es))

Containers == {"CollateralDetail", "ProductSupply", "SupplyDetail"}

C6_NoEmptyContainer ==
    Encoded => \A e \in Range(ElementsOf(Root)) :
                   e.tag \in Containers => e.children # <<>>

(* C6 as amended: a sub-list that is missing or empty yields none of its   *)
(* elements, and ProductSupply and SupplyDetail are never empty            *)
(* (ProductSupply appears only with a SupplyDetail holding                 *)
(* ProductAvailability and one Price per entry of prices); but             *)
(* CollateralDetail is emitted whenever the metadata is present, with one  *)
(* child per entry of text_content and supporting_resources, so it is      *)
(* empty exactly when both of these are missing or empty.                  *)

C6_ContainersFollowSubLists ==
    Encoded =>
        LET product_elem == ProductOf(Root)
            onix_json == call.product.onix_json
            texts == Entries(onix_json, "text_content")
            resources == Entries(onix_json, "supporting_resources")
            prices == Entries(onix_json, "prices")
        IN /\ \A e \in Range(ElementsOf(Root)) :
                 /\ e.tag = "TextContent" => texts # <<>>
                 /\ e.tag = "SupportingResource" => resources # <<>>
                 /\ e.tag \in {"ProductSupply", "SupplyDetail", "Price"} => prices # <<>>
                 /\ e.tag = "ProductSupply" => Tags(e) = <<"SupplyDetail">>
                 /\ e.tag = "SupplyDetail" =>
                       /\ Tags(e) = <<"ProductAvailability">>
                                      \o [i \in DOMAIN prices |-> "Price"]
           /\ Has(product_elem, "CollateralDetail") =>
                 /\ Present(onix_json)
                 /\ Tags(Child(product_elem, "CollateralDetail"))
                       = [i \in DOMAIN texts |-> "TextContent"]
                         \o [i \in DOMAIN resources |-> "SupportingResource"]
           /\ Present(onix_json) => Has(product_elem, "CollateralDetail")

\* metadata carrying only prices: an empty CollateralDetail beside a ProductSupply
C6_Witness ==
    /\ Encoded
    /\ Present(call.product.onix_json)
    /\ DOMAIN call.product.onix_json.v = {"prices"}
    /\ Has(ProductOf(Root), "CollateralDetail")
    /\ Child(ProductOf(Root), "CollateralDetail").children = <<>>
    /\ Has(ProductOf(Root), "ProductSupply")

----------------------------------------------------------------------------
(* C7: the Price element of a price entry holds a Tax element if and only  *)
(* if the entry's tax_rate_percent is set and not zero; the Tax then holds *)
(* TaxType "01", TaxRateCode and a TaxRatePercent that spells the entry's  *)
(* tax_rate_percent.                                                       *)

PricesOf(root) ==
    IF Has(ProductOf(root), "ProductSupply")
    THEN Children(Child(Child(ProductOf(root), "ProductSupply"), "SupplyDetail"), "Price")
    ELSE <<>>

TaxRatePercentOf(price_data) == get(price_data, "tax_rate_percent", None)

C7_TaxConditional ==
    Encoded =>
        LET prices == Entries(call.product.onix_json, "prices")
            elems == PricesOf(Root)
        IN /\ Len(elems) = Len(prices)
           /\ \A i \in DOMAIN prices :
                 /\ Has(elems[i], "Tax") <=> Truthy(TaxRatePercentOf(prices[i]))
                 /\ Has(elems[i], "Tax") =>
                       LET tax == Child(elems[i], "Tax")
                       IN /\ Tags(tax) = <<"TaxType", "TaxRateCode", "TaxRatePercent">>
                          /\ Child(tax, "TaxType").text = PyStr("01")
                          /\ Child(tax, "TaxRateCode").text
                                = get(prices[i], "tax_rate_code", PyStr("S"))
                          /\ Child(tax, "TaxRatePercent").text
                                = PyStr(str(TaxRatePercentOf(prices[i])))

\* a price with tax_rate_percent None beside one with 20.0: the first Price
\* has no Tax, the second a Tax with TaxRatePercent "20.0"
C7_Witness ==
    /\ Encoded
    /\ Len(PricesOf(Root)) = 2
    /\ TaxRatePercentOf(Entries(call.product.onix_json, "prices")[1]) = None
    /\ TaxRatePercentOf(Entries(call.product.onix_json, "prices")[2]) = PyFloat(20, 0)
    /\ ~Has(PricesOf(Root)[1], "Tax")
    /\ Child(Child(PricesOf(Root)[2], "Tax"), "TaxRatePercent").text = PyStr("20.0")

----------------------------------------------------------------------------
(* C8: ProductForm is the product's product_form when it is set and "BC"   *)
(* when it is lacking; LanguageCode is the product's language when it is   *)
(* set and "ukr" when it is lacking.                                       *)

C8_DefaultCodes ==
    Encoded =>
        LET desc == DescriptiveDetailOf(Root)
            product_form == call.product.product_form
            language == call.product.language
        IN /\ Child(desc, "ProductForm").text
                = (IF Present(product_form) THEN product_form ELSE PyStr("BC"))
           /\ Child(Child(desc, "Language"), "LanguageCode").text
                = (IF Present(language) THEN language ELSE PyStr("ukr"))

\* a product with neither: "BC" and "ukr"
C8_Witness ==
    /\ Encoded
    /\ call.product.product_form = None
    /\ call.product.language = None
    /\ Child(DescriptiveDetailOf(Root), "ProductForm").text = PyStr("BC")
    /\ Child(Child(DescriptiveDetailOf(Root), "Language"), "LanguageCode").text
          = PyStr("ukr")

----------------------------------------------------------------------------
(* C9: a document holds exactly one ProductIdentifier, with ProductIDType  *)
(* "15" and IDValue the product's ISBN-13 unchanged, and the pair          *)
(* ProductIDType 15 / IDValue <isbn> occurs once in the whole document     *)
(* (also when the publisher's GLN is the same 13 characters).              *)

\* the elements of the document that hold the pair
IsbnPairs(root, isbn) ==
    SelectSeq(ElementsOf(root),
              LAMBDA e : /\ \E c \in Range(e.children) :
                               c.tag = "ProductIDType" /\ c.text = PyStr("15")
                         /\ \E c \in Range(e.children) :
                               c.tag = "IDValue" /\ c.text = isbn)

C9_IdentifierOnce ==
    Encoded =>
        LET ids == SelectSeq(ElementsOf(Root), LAMBDA e : e.tag = "ProductIdentifier")
        IN /\ Len(ids) = 1
           /\ ids[1].children = <<Leaf("ProductIDType", PyStr("15")),
                                  Leaf("IDValue", call.product.isbn_13)>>
           /\ Len(IsbnPairs(Root, call.product.isbn_13)) = 1

\* ISBN 9781234567897 with a publisher whose GLN is 9781234567897: two IDValue
\* elements spell it, one of them in the ProductIdentifier
C9_Witness ==
    /\ Encoded
    /\ call.product.isbn_13 = PyStr(GoodIsbn)
    /\ Len(IsbnPairs(Root, PyStr(GoodIsbn))) = 1
    /\ Len(SelectSeq(ElementsOf(Root),
                     LAMBDA e : e.tag = "IDValue" /\ e.text = PyStr(GoodIsbn))) = 2

----------------------------------------------------------------------------
(* C10: two calls of generate_product_xml with the same aggregate, by the  *)
(* same generator, that read the same clock, return the same document (or  *)
(* raise the same exception): nothing else the caller or the clock did in  *)
(* between shows in the output.                                            *)

----------------------------------------------------------------------------
(* C11: every output has exactly one PublishingDetail, whose last child is *)
(* PublishingStatus "04" with or without a publisher; it holds a Publisher *)
(* (PublishingRole "01", PublisherName) exactly when a publisher is given, *)
(* and that Publisher holds a PublisherIdentifier (PublisherIDType "06",   *)
(* IDValue = GLN) exactly when the publisher's GLN is present.             *)

C11_PublishingDetail ==
    Encoded =>
        LET details == SelectSeq(ElementsOf(Root),
                                 LAMBDA e : e.tag = "PublishingDetail")
            publisher == call.publisher
        IN /\ Len(details) = 1
           /\ Children(ProductOf(Root), "PublishingDetail") = details
           /\ LET kids == details[1].children
                  pubs == Children(details[1], "Publisher")
              IN /\ Len(kids) >= 1
                 /\ kids[Len(kids)] = Leaf("PublishingStatus", PyStr("04"))
                 /\ Len(Children(details[1], "PublishingStatus")) = 1
                 /\ Len(pubs) = (IF Present(publisher) THEN 1 ELSE 0)
                 /\ Len(kids) = Len(pubs) + 1
                 /\ Present(publisher) =>
                       LET ids == Children(pubs[1], "PublisherIdentifier")
                       IN /\ Tags(pubs[1]) = <<"PublishingRole", "PublisherName">>
                                             \o [i \in 1..Len(ids) |-> "PublisherIdentifier"]
                          /\ Child(pubs[1], "PublishingRole").text = PyStr("01")
                          /\ Child(pubs[1], "PublisherName").text = publisher.name
                          /\ Len(ids) = (IF Present(publisher.gln) THEN 1 ELSE 0)
                          /\ Present(publisher.gln) =>
                                ids[1] = Node("PublisherIdentifier",
                                              <<Leaf("PublisherIDType", PyStr("06")),
                                                Leaf("IDValue", publisher.gln)>>)

\* a document for a publisher with a GLN, and its PublisherIdentifier
C11_Witness ==
    /\ Encoded
    /\ Present(call.publisher)
    /\ Present(call.publisher.gln)
    /\ Has(Child(PublishingDetailOf(Root), "Publisher"), "PublisherIdentifier")

----------------------------------------------------------------------------
(* C12: a call of generate_product_xml is all or nothing: it leaves its    *)
(* caller either with a complete document (Header, and Product with every  *)
(* block that applies to the aggregate) or with the exception a block      *)
(* raised and nothing else, never with a document that lacks a block.      *)

\* the document has the Header and every block that applies to the aggregate
Complete(root, agg) ==
    /\ Tags(root) = <<"Header", "Product">>
    /\ Tags(Child(root, "Header")) = <<"Sender", "SentDateTime", "MessageNote">>
    /\ LET blocks == Tags(ProductOf(root))
           onix_json == agg.product.onix_json
       IN /\ InBlockOrder(blocks)
          /\ Present(onix_json) => "CollateralDetail" \in Range(blocks)
          /\ Entries(onix_json, "prices") # <<>> => "ProductSupply" \in Range(blocks)

\* what a call left with its caller is an exception alone or a whole document
AllOrNothing(outcome, agg) ==
    \/ /\ IsRaise(outcome.value)
       /\ DOMAIN outcome.value = {"t", "exc"}
    \/ /\ outcome.value.t = "document"
       /\ Complete(outcome.value.root, agg)

C12_AllOrNothing ==
    /\ pc # "idle" => AllOrNothing(result, call)
    /\ pc = "again" => AllOrNothing(result2, call)

\* a call that raised: the metadata holds a null sub-list the encoder iterates
C12_Witness ==
    /\ pc = "returned"
    /\ IsRaise(result.value)
    /\ Present(call.product.onix_json)
    /\ get(call.product.onix_json, "text_content", PyList(<<>>)) = None

----------------------------------------------------------------------------
(* C13: encoding leaves its inputs and the encoder unchanged.  A call made *)
(* for an aggregate the caller holds leaves the aggregate (product with    *)
(* its metadata, authors, publisher, collection title) and the outcome of  *)
(* an earlier call as they were, no step changes the generator's           *)
(* sender_name and sender_email, and whatever calls the generator served   *)
(* before, the outcome of a call is what encoding its aggregate alone, by  *)
(* the generator as it is now and at the clock reading of the call, gives. *)

\* the outcome of the latest call
Latest == IF pc = "again" THEN result2 ELSE result

\* the latest outcome is what the aggregate and the generator, as the call
\* left them, give when encoded at the same clock reading
AsAlone ==
    (pc # "idle" /\ now = Latest.clock) =>
        /\ Latest.gen = self
        /\ Latest.value = generate_product_xml(self, call.product, call.authors,
                                               call.publisher, call.collection_title)

\* a step that encodes an aggregate the caller already holds changes neither
\* the aggregate nor the earlier outcome, and no step changes the generator
InputsUnchanged ==
    /\ self' = self
    /\ (call # NoCall /\ pc' # "idle") => (call' = call /\ result' = result)

----------------------------------------------------------------------------
(* C14: an emitted CollateralDetail holds one TextContent per entry of the *)
(* metadata's text_content list and one SupportingResource per entry of    *)
(* supporting_resources, in input order, every TextContent before every    *)
(* SupportingResource; a TextContent has the children TextType,            *)
(* ContentAudience, Text in this order, TextType being "03" and            *)
(* ContentAudience "00" when the entry has no such key.                    *)

\* the entry's value under the key, or the default when it has no such key
FieldOr(entry, key, default) ==
    IF key \in DOMAIN entry.v THEN entry.v[key] ELSE PyStr(default)

C14_CollateralEntries ==
    (Encoded /\ Has(ProductOf(Root), "CollateralDetail")) =>
        LET collateral == Child(ProductOf(Root), "CollateralDetail")
            texts == Entries(call.product.onix_json, "text_content")
            resources == Entries(call.product.onix_json, "supporting_resources")
        IN /\ Tags(collateral) = [i \in 1..Len(texts) |-> "TextContent"]
                                 \o [i \in 1..Len(resources) |-> "SupportingResource"]
           /\ \A i \in 1..Len(texts) :
                 LET e == collateral.children[i]
                 IN /\ Tags(e) = <<"TextType", "ContentAudience", "Text">>
                    /\ e.children[1].text = FieldOr(texts[i], "text_type", "03")
                    /\ e.children[2].text = FieldOr(texts[i], "content_audience", "00")
                    /\ e.children[3].text = FieldOr(texts[i], "text", "")
           /\ \A j \in 1..Len(resources) :
                 LET e == collateral.children[Len(texts) + j]
                 IN /\ Child(e, "ResourceContentType").text
                         = FieldOr(resources[j], "resource_content_type", "01")
                    /\ Child(Child(e, "ResourceVersion"), "ResourceLink").text
                         = FieldOr(resources[j], "resource_link", "")

\* two different text entries, the second with neither type nor audience,
\* followed by two different resources
C14_Witness ==
    /\ Encoded
    /\ Present(call.product.onix_json)
    /\ LET texts == Entries(call.product.onix_json, "text_content")
       IN /\ Len(texts) = 2
          /\ texts[1] # texts[2]
          /\ "text_type" \notin DOMAIN texts[2].v
    /\ LET resources == Entries(call.product.onix_json, "supporting_resources")
       IN /\ Len(resources) = 2
          /\ resources[1] # resources[2]
    /\ Tags(Child(ProductOf(Root), "CollateralDetail"))[3] = "SupportingResource"

----------------------------------------------------------------------------
(* C15: for a list of n authors the document has n Contributor elements,   *)
(* with SequenceNumber 1, 2, ..., n in document order, the i-th naming the *)
(* i-th author of the list passed to the encoder; with an empty list there *)
(* is no Contributor and the rest of DescriptiveDetail is still emitted.   *)

C15_ContributorPositions ==
    Encoded =>
        LET detail == DescriptiveDetailOf(Root)
            contributors == Children(detail, "Contributor")
            others == SelectSeq(Tags(detail), LAMBDA t : t # "Contributor")
        IN /\ Len(SelectSeq(ElementsOf(Root), LAMBDA e : e.tag = "Contributor"))
                = Len(call.authors)
           /\ Len(contributors) = Len(call.authors)
           /\ \A i \in 1..Len(contributors) :
                 /\ Child(contributors[i], "SequenceNumber").text = PyStr(ToString(i))
                 /\ Child(contributors[i], "PersonName").text = call.authors[i].full_name
           /\ others = <<"ProductComposition", "ProductForm", "TitleDetail">>
                        \o (IF Present(call.collection_title) THEN <<"Collection">> ELSE <<>>)
                        \o <<"Language">>

\* two authors, B before A, numbered 1 and 2 in this order
C15_Witness ==
    /\ Encoded
    /\ call.authors = <<AuthorB, AuthorA>>
    /\ PersonNames(Root) = <<AuthorB.full_name, AuthorA.full_name>>
    /\ Len(Children(DescriptiveDetailOf(Root), "Contributor")) = 2

====
